---- MODULE Spec2Model ----
(***************************************************************************)
(* Model of src/sports.py, the IPL dashboard script.                       *)
(*                                                                         *)
(* The script runs top to bottom on every user interaction: it reads the   *)
(* two uploaded CSV files, normalises the column names, cleans the two     *)
(* tables, checks the required deliveries columns and then renders the     *)
(* section chosen in the sidebar.  A table is a record                     *)
(*   [columns |-> sequence of column names, rows |-> sequence of rows]     *)
(* and a row is a sequence of cells aligned with the columns.  A cell is   *)
(* a tagged value: Str(s), Num(n) or NaN (a missing CSV field).            *)
(***************************************************************************)
EXTENDS Integers, Sequences, FiniteSets, TLC

VARIABLES match_file, delivery_file, tie_break, section, selected,
          df, deliveries, run

vars == <<match_file, delivery_file, tie_break, section, selected,
          df, deliveries, run>>

(***************************************************************************)
(* Cells                                                                   *)
(***************************************************************************)
NaN == <<"nan">>

Str(s) == <<"str", s>>

Num(n) == <<"num", n>>

None == <<"none">>

IsNum(c) == c[1] = "num"

IsStr(c) == c[1] = "str"

IsNaN(c) == c[1] = "nan"

Val(c) == c[2]

Range(s) == {s[i] : i \in DOMAIN s}

(***************************************************************************)
(* Column-name normalisation: str.strip() then str.lower()                 *)
(***************************************************************************)
UPPERCASE == "ABCDEFGHIJKLMNOPQRSTUVWXYZ"

LOWERCASE == "abcdefghijklmnopqrstuvwxyz"

CharAt(s, i) == SubSeq(s, i, i)

IsSpace(ch) == ch \in {" ", "\t"}

\* the lower-case letter of every upper-case letter
LowerOf ==
    [ch \in {CharAt(UPPERCASE, i) : i \in 1..Len(UPPERCASE)} |->
        CharAt(LOWERCASE, CHOOSE i \in 1..Len(UPPERCASE) : CharAt(UPPERCASE, i) = ch)]

LowerChar(ch) == IF ch \in DOMAIN LowerOf THEN LowerOf[ch] ELSE ch

RECURSIVE StrLower(_)
StrLower(s) ==
    IF Len(s) = 0 THEN ""
    ELSE LowerChar(CharAt(s, 1)) \o StrLower(SubSeq(s, 2, Len(s)))

RECURSIVE LStrip(_)
LStrip(s) ==
    IF Len(s) > 0 /\ IsSpace(CharAt(s, 1)) THEN LStrip(SubSeq(s, 2, Len(s))) ELSE s

RECURSIVE RStrip(_)
RStrip(s) ==
    IF Len(s) > 0 /\ IsSpace(CharAt(s, Len(s))) THEN RStrip(SubSeq(s, 1, Len(s) - 1)) ELSE s

StrStrip(s) == RStrip(LStrip(s))

\* df.columns.str.strip().str.lower()
NormalizeColumns(t) ==
    [t EXCEPT !.columns = [i \in DOMAIN t.columns |-> StrLower(StrStrip(t.columns[i]))]]

(***************************************************************************)
(* Table access                                                            *)
(***************************************************************************)
HasColumn(t, c) == \E j \in DOMAIN t.columns : t.columns[j] = c

ColIndex(t, c) == CHOOSE j \in DOMAIN t.columns : t.columns[j] = c

NRows(t) == Len(t.rows)

Cell(t, i, c) == t.rows[i][ColIndex(t, c)]

\* boolean indexing t[mask]: the table with the rows the mask keeps, in order
Rows(t, kept) == [t EXCEPT !.rows = kept]

\* the pandas comparison a == b: a missing value equals nothing
Eq(a, b) == ~IsNaN(a) /\ ~IsNaN(b) /\ a = b

RECURSIVE SumSeq(_)
SumSeq(s) == IF s = <<>> THEN 0 ELSE Head(s) + SumSeq(Tail(s))

\* Series.sum() of a numeric column: missing values count as 0
ColumnSum(t, c) ==
    SumSeq([i \in DOMAIN t.rows |-> IF IsNum(Cell(t, i, c)) THEN Val(Cell(t, i, c)) ELSE 0])

\* Series.unique(): the distinct values in order of first appearance
RECURSIVE UniqueSeq(_)
UniqueSeq(s) ==
    IF s = <<>> THEN <<>>
    ELSE LET front == UniqueSeq(SubSeq(s, 1, Len(s) - 1))
             last  == s[Len(s)]
         IN  IF last \in Range(front) THEN front ELSE Append(front, last)

Unique(t, c) == UniqueSeq([i \in DOMAIN t.rows |-> Cell(t, i, c)])

(***************************************************************************)
(* Cleaning                                                                *)
(***************************************************************************)
\* DataFrame.drop_duplicates(): keep the first of each group of equal rows
drop_duplicates(t) == [t EXCEPT !.rows = UniqueSeq(t.rows)]

\* dtype inferred by read_csv: a column is numeric when it holds no text
IsNumericColumn(t, j) == \A i \in DOMAIN t.rows : ~IsStr(t.rows[i][j])

select_dtypes_number(t) == {j \in DOMAIN t.columns : IsNumericColumn(t, j)}

\* fillna(0) restricted to the column positions in cols
fillna(t, cols) ==
    [t EXCEPT !.rows = [i \in DOMAIN t.rows |->
        [j \in DOMAIN t.rows[i] |->
            IF j \in cols /\ IsNaN(t.rows[i][j]) THEN Num(0) ELSE t.rows[i][j]]]]

CleanMatches(raw) ==
    LET t == drop_duplicates(NormalizeColumns(raw))
    IN  fillna(t, DOMAIN t.columns)

CleanDeliveries(raw) ==
    LET n == NormalizeColumns(raw)
        t == drop_duplicates(n)
    IN  fillna(t, select_dtypes_number(n))

(***************************************************************************)
(* Required-column gate                                                    *)
(***************************************************************************)
required_cols == <<"batsman", "batsman_runs">>

\* variant: every required column is reported once any of them is absent
missing_all(t) ==
    IF \E j \in DOMAIN required_cols : ~HasColumn(t, required_cols[j]) THEN required_cols ELSE <<>>

\* lines 38-39
missing(t) == SelectSeq(required_cols, LAMBDA c : ~HasColumn(t, c))

(***************************************************************************)
(* Ordering of values (Python's sorted, pandas' sorted group keys)         *)
(***************************************************************************)
ASCII == " 0123456789ABCDEFGHIJKLMNOPQRSTUVWXYZ_abcdefghijklmnopqrstuvwxyz"

\* the position of every character in the ASCII order
RankOf ==
    [ch \in {CharAt(ASCII, i) : i \in 1..Len(ASCII)} |->
        CHOOSE i \in 1..Len(ASCII) : CharAt(ASCII, i) = ch]

CharRank(ch) == RankOf[ch]

RECURSIVE StrLess(_, _)
StrLess(a, b) ==
    IF Len(b) = 0 THEN FALSE
    ELSE IF Len(a) = 0 THEN TRUE
    ELSE IF CharAt(a, 1) = CharAt(b, 1)
         THEN StrLess(SubSeq(a, 2, Len(a)), SubSeq(b, 2, Len(b)))
         ELSE CharRank(CharAt(a, 1)) < CharRank(CharAt(b, 1))

\* order of two cells of one type; numbers are put before text otherwise
CellLess(a, b) ==
    IF IsNum(a) /\ IsNum(b) THEN Val(a) < Val(b)
    ELSE IF IsStr(a) /\ IsStr(b) THEN StrLess(Val(a), Val(b))
    ELSE IsNum(a) /\ IsStr(b)

RECURSIVE Insert(_, _)
Insert(x, s) ==
    IF s = <<>> THEN <<x>>
    ELSE IF CellLess(x, Head(s)) THEN <<x>> \o s
    ELSE <<Head(s)>> \o Insert(x, Tail(s))

RECURSIVE SortCells(_)
SortCells(s) == IF s = <<>> THEN <<>> ELSE Insert(Head(s), SortCells(Tail(s)))

\* sorted() raises TypeError when it has to compare text with a float/int
MixedTypes(s) == \E a, b \in Range(s) : IsStr(a) /\ ~IsStr(b)

(***************************************************************************)
(* Aggregation primitives                                                  *)
(***************************************************************************)
head(s, n) == SubSeq(s, 1, IF Len(s) < n THEN Len(s) ELSE n)

\* variant: a group keeps the value of its first row only
GroupByFirst(t, key, val) ==
    LET keys == SortCells(SelectSeq(Unique(t, key), LAMBDA k : ~IsNaN(k)))
    IN  [g \in DOMAIN keys |->
            <<keys[g], ColumnSum([t EXCEPT !.rows = head(Rows(t, SelectSeq(t.rows, LAMBDA r : r[ColIndex(t, key)] = keys[g])).rows, 1)], val)>>]

\* groupby(key)[val].sum(): one <<key, total>> per non-missing key, keys sorted
GroupBySum(t, key, val) ==
    LET keys == SortCells(SelectSeq(Unique(t, key), LAMBDA k : ~IsNaN(k)))
    IN  [g \in DOMAIN keys |->
            <<keys[g], ColumnSum(Rows(t, SelectSeq(t.rows, LAMBDA r : r[ColIndex(t, key)] = keys[g])), val)>>]

\* position of the entry sort_values(ascending=False) puts first among idx:
\* the largest value; equal values are taken in the order the build's
\* argsort leaves them (tb = "keyOrder": as grouped, "reverseKeyOrder": reversed)
FirstDesc(series, idx, tb) ==
    CHOOSE i \in idx :
        \A j \in idx \ {i} :
            \/ series[i][2] > series[j][2]
            \/ series[i][2] = series[j][2] /\ (IF tb = "keyOrder" THEN i < j ELSE i > j)

RECURSIVE SortDescFrom(_, _, _)
SortDescFrom(series, idx, tb) ==
    IF idx = {} THEN <<>>
    ELSE LET i == FirstDesc(series, idx, tb)
         IN  <<series[i]>> \o SortDescFrom(series, idx \ {i}, tb)

\* variant: the default ascending order
sort_values_asc(series, tb) ==
    LET desc == SortDescFrom(series, DOMAIN series, tb)
    IN  [k \in DOMAIN desc |-> desc[Len(desc) + 1 - k]]

\* sort_values(ascending=False)
sort_values_desc(series, tb) == SortDescFrom(series, DOMAIN series, tb)

\* line 70: head(10)
TopN == 10

\* exact quotient n/d of two integers, d > 0
Ratio(n, d) == <<n, d>>

\* format(x, ".2f") of a non-negative quotient, in hundredths, halves to even
Format2f(q) ==
    LET n == q[1] * 100
        f == n \div q[2]
        r == n % q[2]
    IN  IF 2 * r > q[2] \/ (2 * r = q[2] /\ f % 2 = 1) THEN f + 1 ELSE f

\* Series.mode()[0]: the most frequent value; modes are sorted when they can
\* be compared and otherwise stay in order of first appearance
Mode(t, c) ==
    LET u     == Unique(t, c)
        n(v)  == Len(SelectSeq(t.rows, LAMBDA r : r[ColIndex(t, c)] = v))
        modes == SelectSeq(u, LAMBDA v : \A w \in Range(u) : n(w) <= n(v))
    IN  IF MixedTypes(modes) THEN modes[1] ELSE SortCells(modes)[1]

\* value_counts() of a sequence of values, as a set of <<value, count>>
value_counts(s) ==
    {<<v, Cardinality({i \in DOMAIN s : s[i] = v})>> : v \in {x \in Range(s) : ~IsNaN(x)}}

(***************************************************************************)
(* The sections.  A section returns the two tables as it leaves them, the  *)
(* exception that ended it ("none" when it rendered) with the label the    *)
(* exception names, and what it rendered.                                  *)
(***************************************************************************)
Rendered(d, del, out) ==
    [df |-> d, deliveries |-> del, error |-> "none", key |-> "", out |-> out]

Raised(d, del, err, key) ==
    [df |-> d, deliveries |-> del, error |-> err, key |-> key, out |-> None]

\* an exception after part of the section is on the page
RaisedAfter(d, del, err, key, out) ==
    [df |-> d, deliveries |-> del, error |-> err, key |-> key, out |-> out]

\* lines 68-116
DashboardOverview(d, del, tb) ==
    LET top_runs == head(sort_values_desc(GroupBySum(del, "batsman", "batsman_runs"), tb), TopN)
        overs    == IF HasColumn(del, "over") /\ HasColumn(del, "total_runs")
                    THEN GroupBySum(del, "over", "total_runs") ELSE <<>>
        avg_runs_over ==
            [g \in DOMAIN overs |->
                <<overs[g][1],
                  Ratio(overs[g][2],
                        Len(SelectSeq(del.rows, LAMBDA r : r[ColIndex(del, "over")] = overs[g][1])))>>]
    IN  IF top_runs = <<>> THEN Raised(d, del, "IndexError", "0")
        ELSE IF ~HasColumn(d, "winner") THEN Raised(d, del, "KeyError", "winner")
        ELSE IF ~HasColumn(d, "toss_decision") THEN Raised(d, del, "ValueError", "toss_decision")
        ELSE IF NRows(d) = 0 THEN Raised(d, del, "KeyError", "0")
        ELSE Rendered(d, del,
                [top_runs |-> top_runs,
                 avg_runs_over |-> avg_runs_over,
                 total_matches |-> NRows(d),
                 most_successful |-> Mode(d, "winner"),
                 top_batsman |-> top_runs[1]])

\* variant: every dismissal on the player's deliveries is counted
outs_any(player_data, selected_player) ==
    Len(SelectSeq(player_data.rows,
            LAMBDA r : IsStr(r[ColIndex(player_data, "player_dismissed")])))

\* line 125: player_data['player_dismissed'].eq(selected_player).sum()
outs(player_data, selected_player) ==
    Len(SelectSeq(player_data.rows,
            LAMBDA r : Eq(r[ColIndex(player_data, "player_dismissed")], selected_player)))

\* line 126
average(total_runs, n_outs) ==
    IF n_outs > 0 THEN Ratio(total_runs, n_outs) ELSE Ratio(total_runs, 1)

\* line 127
strike_rate(total_runs, balls_faced) ==
    IF balls_faced > 0 THEN Ratio(total_runs * 100, balls_faced) ELSE Ratio(0, 1)

\* lines 118-132
PlayerStatistics(d, del, selected_player) ==
    IF MixedTypes(Unique(del, "batsman")) THEN Raised(d, del, "TypeError", "batsman")
    ELSE
    LET player_data == Rows(del, SelectSeq(del.rows, LAMBDA r : Eq(r[ColIndex(del, "batsman")], selected_player)))
        total_runs  == ColumnSum(player_data, "batsman_runs")
        balls_faced == NRows(player_data)
        n_outs      == outs(player_data, selected_player)
        avg         == average(total_runs, n_outs)
        sr          == strike_rate(total_runs, balls_faced)
    IN  IF ~HasColumn(del, "player_dismissed") THEN Raised(d, del, "KeyError", "player_dismissed")
        ELSE Rendered(d, del,
                [total_runs |-> total_runs,
                 balls_faced |-> balls_faced,
                 outs |-> n_outs,
                 average |-> avg,
                 average_2f |-> Format2f(avg),
                 strike_rate |-> sr,
                 strike_rate_2f |-> Format2f(sr)])

\* lines 153-157
get_opponent(d, row) ==
    IF row[ColIndex(d, "winner")] = row[ColIndex(d, "team1")]
    THEN row[ColIndex(d, "team2")]
    ELSE row[ColIndex(d, "team1")]

AddOpponent(t, d) ==
    [t EXCEPT !.columns = Append(@, "Opponent"),
              !.rows = [i \in DOMAIN @ |-> Append(@[i], get_opponent(d, @[i]))]]

\* variant: the Opponent column is assigned on the matches table itself
with_opponent_in_place(d, won) == [df |-> AddOpponent(d, d), h2h |-> AddOpponent(won, d)]

\* lines 158-159: h2h is a copy of the winning rows and gets the Opponent column
with_opponent(d, won) == [df |-> d, h2h |-> AddOpponent(won, d)]

\* lines 134-162
TeamAnalysis(d, del, selected_team) ==
    IF ~HasColumn(d, "team1") THEN Raised(d, del, "KeyError", "team1")
    ELSE IF MixedTypes(Unique(d, "team1")) THEN Raised(d, del, "TypeError", "team1")
    ELSE IF ~HasColumn(d, "team2") THEN Raised(d, del, "KeyError", "team2")
    ELSE IF ~HasColumn(d, "winner") THEN Raised(d, del, "KeyError", "winner")
    ELSE
    LET matches_played ==
            Rows(d, SelectSeq(d.rows, LAMBDA r : Eq(r[ColIndex(d, "team1")], selected_team)
                                                 \/ Eq(r[ColIndex(d, "team2")], selected_team)))
        total_matches  == NRows(matches_played)
        won            == Rows(d, SelectSeq(d.rows, LAMBDA r : Eq(r[ColIndex(d, "winner")], selected_team)))
        total_wins     == NRows(won)
        win_pct        == IF total_matches > 0 THEN Ratio(total_wins * 100, total_matches)
                          ELSE Ratio(0, 1)
        copied         == with_opponent(d, won)
        h2h            == IF HasColumn(d, "loser")
                          THEN [i \in DOMAIN won.rows |-> won.rows[i][ColIndex(d, "loser")]]
                          ELSE [i \in DOMAIN copied.h2h.rows |-> Cell(copied.h2h, i, "Opponent")]
        stats          == [total_matches |-> total_matches,
                           total_wins |-> total_wins,
                           win_pct |-> win_pct,
                           win_pct_2f |-> Format2f(win_pct)]
    IN  IF HasColumn(d, "loser")
        THEN Rendered(d, del, [stats |-> stats, h2h_counts |-> value_counts(h2h)])
        \* apply(axis=1) of no rows returns a frame, which cannot be set as one column
        ELSE IF NRows(won) = 0 THEN RaisedAfter(d, del, "ValueError", "Opponent", [stats |-> stats])
        ELSE Rendered(copied.df, del, [stats |-> stats, h2h_counts |-> value_counts(h2h)])

\* lines 164-181
SeasonTrends(d, del, selected_season, tb) ==
    IF ~HasColumn(d, "season")
    THEN Rendered(d, del, [info |-> "Season data not available in matches file."])
    ELSE IF MixedTypes(Unique(d, "season")) THEN Raised(d, del, "TypeError", "season")
    ELSE
    LET season_df  == Rows(d, SelectSeq(d.rows, LAMBDA r : Eq(r[ColIndex(d, "season")], selected_season)))
        has_winner == HasColumn(d, "winner")
        linked     == HasColumn(d, "id") /\ HasColumn(del, "batsman")
        match_ids  == IF linked THEN Range(Unique(season_df, "id")) ELSE {}
        season_deliveries ==
            IF linked /\ HasColumn(del, "match_id")
            THEN Rows(del, SelectSeq(del.rows, LAMBDA r : r[ColIndex(del, "match_id")] \in match_ids))
            ELSE del
        top_batsman ==
            IF linked
            THEN head(sort_values_desc(GroupBySum(season_deliveries, "batsman", "batsman_runs"), tb), 1)
            ELSE <<>>
    IN  IF has_winner /\ NRows(season_df) = 0 THEN Raised(d, del, "KeyError", "0")
        ELSE IF linked /\ ~HasColumn(del, "match_id") THEN Raised(d, del, "KeyError", "match_id")
        ELSE Rendered(d, del,
                [total_matches |-> NRows(season_df),
                 top_team |-> IF has_winner THEN Mode(season_df, "winner") ELSE None,
                 top_batsman |-> top_batsman])

\* wickets of one bowler's deliveries: the rows whose player_dismissed is not missing
notna_sum(t, c) == Len(SelectSeq(t.rows, LAMBDA r : ~IsNaN(r[ColIndex(t, c)])))

SetMax(S) == CHOOSE x \in S : \A y \in S : y <= x

\* variant: the scorecard notation overs.balls, balls // 6 + (balls % 6) / 10
overs_decimal(balls) == Ratio(10 * (balls \div 6) + (balls % 6), 10)

\* line 191: balls // 6 + (balls % 6) / 6, in sixths of an over
overs(balls) == Ratio(6 * (balls \div 6) + (balls % 6), 6)

\* line 192
economy(runs, n_overs) ==
    IF n_overs[1] > 0 THEN Ratio(runs * n_overs[2], n_overs[1]) ELSE Ratio(0, 1)

\* lines 183-198
BowlerAnalysis(d, del, selected_bowler) ==
    IF ~HasColumn(del, "bowler") THEN Raised(d, del, "KeyError", "bowler")
    ELSE IF MixedTypes(Unique(del, "bowler")) THEN Raised(d, del, "TypeError", "bowler")
    ELSE IF ~HasColumn(del, "player_dismissed") THEN Raised(d, del, "KeyError", "player_dismissed")
    ELSE IF ~HasColumn(del, "total_runs") THEN Raised(d, del, "KeyError", "total_runs")
    ELSE
    LET bowler_data == Rows(del, SelectSeq(del.rows, LAMBDA r : Eq(r[ColIndex(del, "bowler")], selected_bowler)))
        wickets     == notna_sum(bowler_data, "player_dismissed")
        balls       == NRows(bowler_data)
        runs        == ColumnSum(bowler_data, "total_runs")
        n_overs     == overs(balls)
        econ        == economy(runs, n_overs)
        per_match   == IF HasColumn(del, "match_id")
                       THEN {notna_sum(Rows(bowler_data,
                                         SelectSeq(bowler_data.rows,
                                             LAMBDA r : r[ColIndex(del, "match_id")] = m)),
                                       "player_dismissed") :
                                m \in Range(Unique(bowler_data, "match_id"))}
                       ELSE {}
        best        == IF ~HasColumn(del, "match_id") THEN None
                       ELSE IF per_match = {} THEN NaN
                       ELSE Num(SetMax(per_match))
    IN  Rendered(d, del,
            [wickets |-> wickets,
             balls |-> balls,
             runs |-> runs,
             overs |-> n_overs,
             economy |-> econ,
             economy_2f |-> Format2f(econ),
             best |-> best])

\* lines 200-209
MatchOutcomeInsights(d, del) ==
    LET positive(c) == Len(SelectSeq(d.rows, LAMBDA r : IsNum(r[ColIndex(d, c)]) /\ Val(r[ColIndex(d, c)]) > 0))
        text(c)     == \E i \in DOMAIN d.rows : IsStr(Cell(d, i, c))
        result_is(w) == Len(SelectSeq(d.rows,
                            LAMBDA r : IsStr(r[ColIndex(d, "result")])
                                       /\ StrLower(Val(r[ColIndex(d, "result")])) = w))
    IN  IF HasColumn(d, "win_by_runs") /\ text("win_by_runs")
        THEN Raised(d, del, "TypeError", "win_by_runs")
        ELSE IF HasColumn(d, "win_by_wickets") /\ text("win_by_wickets")
        THEN Raised(d, del, "TypeError", "win_by_wickets")
        ELSE IF HasColumn(d, "result") /\ NRows(d) > 0 /\ ~text("result")
        THEN Raised(d, del, "AttributeError", "str")
        ELSE Rendered(d, del,
                [win_by_runs |-> IF HasColumn(d, "win_by_runs") THEN positive("win_by_runs") ELSE 0,
                 win_by_wickets |-> IF HasColumn(d, "win_by_wickets") THEN positive("win_by_wickets") ELSE 0,
                 ties |-> IF HasColumn(d, "result") THEN result_is("tie") ELSE 0,
                 no_result |-> IF HasColumn(d, "result") THEN result_is("no result") ELSE 0])

\* truth value of a selectbox result in "if season:"
Truthy(c) == c # None /\ c # Num(0) /\ c # Str("")

\* lines 211-227
InteractiveVisualizations(d, del, team, season) ==
    IF ~HasColumn(d, "team1") THEN Raised(d, del, "KeyError", "team1")
    ELSE IF MixedTypes(Unique(d, "team1")) THEN Raised(d, del, "TypeError", "team1")
    ELSE IF HasColumn(d, "season") /\ MixedTypes(Unique(d, "season"))
    THEN Raised(d, del, "TypeError", "season")
    ELSE IF Truthy(season) /\ ~HasColumn(d, "team2") THEN Raised(d, del, "KeyError", "team2")
    ELSE IF Truthy(season) /\ ~HasColumn(d, "id") THEN Raised(d, del, "KeyError", "id")
    ELSE IF Truthy(season) /\ ~HasColumn(del, "match_id") THEN Raised(d, del, "KeyError", "match_id")
    ELSE IF ~HasColumn(del, "batting_team") THEN Raised(d, del, "KeyError", "batting_team")
    ELSE
    LET match_ids ==
            Range(Unique(Rows(d, SelectSeq(d.rows, LAMBDA r :
                /\ Eq(r[ColIndex(d, "season")], season)
                /\ (Eq(r[ColIndex(d, "team1")], team) \/ Eq(r[ColIndex(d, "team2")], team)))), "id"))
        team_deliveries ==
            IF Truthy(season)
            THEN Rows(del, SelectSeq(del.rows, LAMBDA r :
                    r[ColIndex(del, "match_id")] \in match_ids
                    /\ Eq(r[ColIndex(del, "batting_team")], team)))
            ELSE Rows(del, SelectSeq(del.rows, LAMBDA r : Eq(r[ColIndex(del, "batting_team")], team)))
    IN  IF NRows(team_deliveries) = 0
        THEN Rendered(d, del, [info |-> "No data for selected filters."])
        ELSE IF ~HasColumn(del, "match_id") THEN Raised(d, del, "KeyError", "match_id")
        ELSE IF ~HasColumn(del, "total_runs") THEN Raised(d, del, "KeyError", "total_runs")
        ELSE Rendered(d, del,
                [runs_by_match |-> GroupBySum(team_deliveries, "match_id", "total_runs")])

\* decimal text of an integer
DIGITS == "0123456789"

RECURSIVE NatText(_)
NatText(n) ==
    IF n < 10 THEN CharAt(DIGITS, n + 1)
    ELSE NatText(n \div 10) \o CharAt(DIGITS, (n % 10) + 1)

\* the text to_csv writes for one cell; a missing value is an empty field
FieldText(c) ==
    IF IsStr(c) THEN Val(c)
    ELSE IF IsNum(c) THEN (IF Val(c) < 0 THEN "-" \o NatText(0 - Val(c)) ELSE NatText(Val(c)))
    ELSE ""

\* DataFrame.to_csv(index=False): the header line, then one line per row
to_csv(t) ==
    <<t.columns>> \o [i \in DOMAIN t.rows |-> [j \in DOMAIN t.rows[i] |-> FieldText(t.rows[i][j])]]

\* lines 229-233
DownloadableReports(d, del) ==
    Rendered(d, del, [matches_csv |-> to_csv(d), deliveries_csv |-> to_csv(del)])

\* lines 235-237
AdvancedAnalytics(d, del) ==
    Rendered(d, del, [info |-> "Predict match outcomes and advanced stats."])

Sections ==
    <<"Dashboard Overview", "Player Statistics", "Team Analysis", "Season-wise Trends",
      "Bowler Analysis", "Match Outcome Insights", "Interactive Visualizations",
      "Downloadable Reports", "Advanced Analytics">>

\* lines 68-237: the branch taken for the section chosen in the sidebar
View(sec, d, del, sel, tb) ==
    CASE sec = "Dashboard Overview"         -> DashboardOverview(d, del, tb)
      [] sec = "Player Statistics"          -> PlayerStatistics(d, del, sel[1])
      [] sec = "Team Analysis"              -> TeamAnalysis(d, del, sel[1])
      [] sec = "Season-wise Trends"         -> SeasonTrends(d, del, sel[1], tb)
      [] sec = "Bowler Analysis"            -> BowlerAnalysis(d, del, sel[1])
      [] sec = "Match Outcome Insights"     -> MatchOutcomeInsights(d, del)
      [] sec = "Interactive Visualizations" -> InteractiveVisualizations(d, del, sel[1], sel[2])
      [] sec = "Downloadable Reports"       -> DownloadableReports(d, del)
      [] sec = "Advanced Analytics"         -> AdvancedAnalytics(d, del)

\* what a selectbox over column c offers: its distinct values, or nothing
\* (None) when the list is empty or is never built
Options(t, c) ==
    IF ~HasColumn(t, c) \/ MixedTypes(Unique(t, c)) \/ NRows(t) = 0 THEN {None}
    ELSE Range(Unique(t, c))

\* the values the user can have selected when the section is rendered
Selections(sec, d, del) ==
    CASE sec = "Player Statistics"          -> Options(del, "batsman") \X {None}
      [] sec = "Team Analysis"              -> Options(d, "team1") \X {None}
      [] sec = "Season-wise Trends"         -> Options(d, "season") \X {None}
      [] sec = "Bowler Analysis"            -> Options(del, "bowler") \X {None}
      [] sec = "Interactive Visualizations" -> Options(d, "team1") \X Options(d, "season")
      [] OTHER                              -> {<<None, None>>}

(***************************************************************************)
(* Uploaded files.  A file is the table read_csv parses from it: the       *)
(* header as typed and one row of cells per line.                          *)
(***************************************************************************)
MaxRows == 2
MaxBalls == 7
MaxMatches == 2
MaxBatsmen == 11

DeliveryColumns ==
    <<"match_id", "over", "batting_team", "batsman", "bowler",
      "batsman_runs", "total_runs", "player_dismissed">>

MatchColumns ==
    <<"id", "season", "team1", "team2", "winner", "toss_decision",
      "result", "win_by_runs", "win_by_wickets">>

Delivery(match_id, over, batting_team, batsman, bowler, batsman_runs, total_runs, player_dismissed) ==
    <<Num(match_id), Num(over), Str(batting_team), batsman, bowler,
      batsman_runs, total_runs, player_dismissed>>

Match(id, season, team1, team2, winner, toss_decision, result, win_by_runs, win_by_wickets) ==
    <<Num(id), Num(season), Str(team1), Str(team2), winner, Str(toss_decision),
      Str(result), Num(win_by_runs), Num(win_by_wickets)>>

Table(columns, rows) == [columns |-> columns, rows |-> rows]

\* a sample deliveries file: a repeated line, a missing run count, two matches
SampleDeliveries ==
    Table(DeliveryColumns,
        << Delivery(1, 1, "CSK", Str("A"), Str("X"), Num(4), Num(4), NaN),
           Delivery(1, 1, "CSK", Str("A"), Str("X"), Num(4), Num(4), NaN),
           Delivery(1, 2, "MI", Str("B"), Str("Y"), NaN, Num(1), Str("B")),
           Delivery(2, 1, "CSK", Str("A"), Str("Y"), Num(1), Num(1), Str("A")) >>)

\* a sample matches file: a win by runs, a win by wickets, a match without result
SampleMatches ==
    Table(MatchColumns,
        << Match(1, 2008, "CSK", "MI", Str("CSK"), "bat", "normal", 5, 0),
           Match(2, 2009, "MI", "CSK", Str("MI"), "field", "normal", 0, 3),
           Match(3, 2009, "CSK", "MI", NaN, "field", "no result", 0, 0) >>)

RemoveAt(s, j) == SubSeq(s, 1, j - 1) \o SubSeq(s, j + 1, Len(s))

\* the file without its j-th column
WithoutColumn(t, j) ==
    Table(RemoveAt(t.columns, j), [i \in DOMAIN t.rows |-> RemoveAt(t.rows[i], j)])

\* the file with another spelling of its header
WithHeader(t, header) == Table(header, t.rows)

\* the file with one more column holding v on every line
WithColumn(t, c, v) ==
    Table(Append(t.columns, c), [i \in DOMAIN t.rows |-> Append(t.rows[i], v)])

\* deliveries files that differ in their header
DeliveryHeaderFiles ==
    {SampleDeliveries,
     WithHeader(SampleDeliveries,
        <<"Match_ID", " over", "Batting_Team ", " Batsman", "BOWLER",
          "BATSMAN_RUNS ", "\ttotal_runs", "Player_Dismissed">>),
     WithHeader(SampleDeliveries,
        <<"match_id", "over", "batting_team", "batsman name", "bowler",
          "runs", "total_runs", "player_dismissed">>),
     WithoutColumn(WithoutColumn(SampleDeliveries, 6), 4)}
    \cup {WithoutColumn(SampleDeliveries, j) : j \in DOMAIN DeliveryColumns}

\* matches files that differ in their header
MatchHeaderFiles ==
    {SampleMatches,
     WithHeader(SampleMatches,
        <<"ID", "Season ", " Team1", "TEAM2", "Winner", "Toss_Decision",
          " result ", "Win_By_Runs", "win_by_wickets">>),
     WithColumn(SampleMatches, "loser", Str("MI"))}
    \cup {WithoutColumn(SampleMatches, j) : j \in DOMAIN MatchColumns}

SeqsUpTo(S, n) == UNION {[1..k -> S] : k \in 0..n}

\* deliveries files that differ in who batted and the runs off the bat
BattingFiles ==
    {Table(DeliveryColumns, rows) :
        rows \in SeqsUpTo({Delivery(1, 1, "CSK", b, Str("X"), Num(r), Num(r), Str("C")) :
                              b \in {Str("A"), Str("B"), NaN}, r \in {1, 4}},
                          MaxRows)}

\* deliveries files that differ in who faced ball i and who was dismissed on it
DismissalFiles ==
    {Table(DeliveryColumns,
           [i \in DOMAIN c |-> Delivery(1, i, "CSK", c[i][1], Str("X"), Num(c[i][2]), Num(c[i][2]), c[i][3])]) :
        c \in SeqsUpTo({Str("A"), Str("B")} \X {1, 4} \X {NaN, Str("A")}, MaxRows)}

\* deliveries files of one bowler: a spell of up to MaxBalls balls of which
\* the first k concede 2 runs and the others 1
EconomyFiles ==
    {Table(DeliveryColumns,
           [i \in 1..n[1] |->
               Delivery(1, i, "CSK", Str("A"), Str("X"), Num(0), Num(IF i <= n[2] THEN 2 ELSE 1), NaN)]) :
        n \in {m \in (0..MaxBalls) \X (0..MaxBalls) : m[2] <= m[1]}}

\* deliveries files that differ in the bowler, the match and the dismissals
WicketFiles ==
    {Table(DeliveryColumns,
           [i \in DOMAIN c |-> Delivery(c[i][1], i, "CSK", Str("A"), c[i][2], Num(1), Num(1), c[i][3])]) :
        c \in SeqsUpTo({1, 2} \X {Str("X"), Str("Y")} \X {NaN, Str("A")}, MaxRows)}

\* deliveries files with MaxBatsmen batsmen, last name first, of whom at most
\* one scores 4 and the others 1
Names == "ABCDEFGHIJKLMNOPQRSTUVWXYZ"

ManyBatsmenFiles ==
    {Table(DeliveryColumns,
           [i \in 1..MaxBatsmen |->
               Delivery(1, i, "CSK", Str(CharAt(Names, MaxBatsmen + 1 - i)), Str("X"),
                        Num(IF i \in four THEN 4 ELSE 1), Num(IF i \in four THEN 4 ELSE 1), NaN)]) :
        four \in {{}} \cup {{i} : i \in 1..MaxBatsmen}}

\* matches files that differ in the sides, the winner and the kind of result;
\* the first match is of season 2008, the later ones of 2009
MatchOutcomes ==
    {<<"CSK", "MI">>, <<"MI", "RCB">>}
    \X {<<Str("CSK"), "normal", 5, 0>>, <<Str("MI"), "normal", 0, 3>>,
        <<Str("MI"), "Tie", 0, 0>>, <<NaN, "no result", 0, 0>>}

MatchFiles ==
    {Table(MatchColumns,
           [i \in DOMAIN c |->
               Match(i, IF i = 1 THEN 2008 ELSE 2009, c[i][1][1], c[i][1][2], c[i][2][1],
                     "bat", c[i][2][2], c[i][2][3], c[i][2][4])]) :
        c \in SeqsUpTo(MatchOutcomes, MaxMatches)}

\* the pairs of files a session may upload
HeaderUploads == MatchHeaderFiles \X DeliveryHeaderFiles

BattingUploads == {SampleMatches} \X (BattingFiles \cup ManyBatsmenFiles)

DismissalUploads == {SampleMatches} \X DismissalFiles

BowlingUploads == {SampleMatches} \X (EconomyFiles \cup WicketFiles)

MatchUploads == MatchFiles \X {SampleDeliveries}

Uploads == HeaderUploads \cup BattingUploads \cup DismissalUploads \cup BowlingUploads \cup MatchUploads

\* how the installed sort leaves equal totals
TieBreaks == {"keyOrder", "reverseKeyOrder"}

(***************************************************************************)
(* One run of the script, lines 24-240                                     *)
(***************************************************************************)
\* lines 25-36 for every file that can be uploaded: the cleaned table of each
CleanedMatches == [f \in {u[1] : u \in Uploads} |-> CleanMatches(f)]

CleanedDeliveries == [f \in {u[2] : u \in Uploads} |-> CleanDeliveries(f)]

Script(mf, dfile, sec, sel, tb) ==
    LET d   == CleanedMatches[mf]
        del == CleanedDeliveries[dfile]
        m   == missing(del)
    IN  IF m # <<>>
        THEN [df |-> d, deliveries |-> del, status |-> "stopped",
              missing |-> m, available |-> del.columns,
              error |-> "none", key |-> "", out |-> None]
        ELSE LET v == View(sec, d, del, sel, tb)
             IN  [df |-> v.df, deliveries |-> v.deliveries,
                  status |-> IF v.error = "none" THEN "rendered" ELSE "exception",
                  missing |-> <<>>, available |-> del.columns,
                  error |-> v.error, key |-> v.key, out |-> v.out]

(***************************************************************************)
(* The session                                                             *)
(***************************************************************************)
\* lines 239-240: nothing uploaded yet
Waiting ==
    [status |-> "warning", missing |-> <<>>, available |-> <<>>,
     error |-> "none", key |-> "", out |-> None]

Init ==
    /\ match_file = None
    /\ delivery_file = None
    /\ tie_break \in TieBreaks
    /\ section = Sections[1]
    /\ selected = <<None, None>>
    /\ df = None
    /\ deliveries = None
    /\ run = Waiting

\* what a run of the script leaves on the page
Page(r) == [f \in DOMAIN Waiting |-> r[f]]

\* lines 21-24: both files are uploaded and the script runs with the first section
Upload(mf, dfile) ==
    /\ run.status = "warning"
    /\ match_file' = mf
    /\ delivery_file' = dfile
    /\ LET r == Script(mf, dfile, section, selected, tie_break)
       IN  /\ run' = Page(r)
           /\ df' = r.df
           /\ deliveries' = r.deliveries
    /\ UNCHANGED <<tie_break, section, selected>>

\* variant: the selectbox keeps the value chosen in the section shown before
SelectSharedKey(sec) ==
    /\ run.status \in {"rendered", "exception"}
    /\ \E sel \in Selections(sec, CleanedMatches[match_file], CleanedDeliveries[delivery_file]) :
        LET kept == IF selected \in Selections(sec, CleanedMatches[match_file],
                                               CleanedDeliveries[delivery_file])
                    THEN selected ELSE sel
            r    == Script(match_file, delivery_file, sec, kept, tie_break)
        IN  /\ selected' = sel
            /\ run' = Page(r)
            /\ df' = r.df
            /\ deliveries' = r.deliveries
    /\ section' = sec
    /\ UNCHANGED <<match_file, delivery_file, tie_break>>

\* lines 53-66 and the selectbox of the section: the user picks a section and
\* a value it offers, and the script runs again from the uploaded files
Select(sec) ==
    /\ run.status \in {"rendered", "exception"}
    /\ \E sel \in Selections(sec, CleanedMatches[match_file], CleanedDeliveries[delivery_file]) :
        LET r == Script(match_file, delivery_file, sec, sel, tie_break)
        IN  /\ selected' = sel
            /\ run' = Page(r)
            /\ df' = r.df
            /\ deliveries' = r.deliveries
    /\ section' = sec
    /\ UNCHANGED <<match_file, delivery_file, tie_break>>

Next ==
    \/ \E u \in HeaderUploads : Upload(u[1], u[2])
    \/ \E sec \in Range(Sections) : Select(sec)

Spec == Init /\ [][Next]_vars

NextBatting ==
    \/ \E u \in BattingUploads : Upload(u[1], u[2])
    \/ \E sec \in Range(Sections) : Select(sec)

SpecBatting == Init /\ [][NextBatting]_vars

NextDismissal ==
    \/ \E u \in DismissalUploads : Upload(u[1], u[2])
    \/ \E sec \in Range(Sections) : Select(sec)

SpecDismissal == Init /\ [][NextDismissal]_vars

NextBowling ==
    \/ \E u \in BowlingUploads : Upload(u[1], u[2])
    \/ \E sec \in Range(Sections) : Select(sec)

SpecBowling == Init /\ [][NextBowling]_vars

NextMatches ==
    \/ \E u \in MatchUploads : Upload(u[1], u[2])
    \/ \E sec \in Range(Sections) : Select(sec)

SpecMatches == Init /\ [][NextMatches]_vars

(***************************************************************************)
(* Properties                                                              *)
(***************************************************************************)
Passed == run.status \in {"rendered", "exception"}

Shown(sec) == run.status = "rendered" /\ section = sec

RowIds(t) == DOMAIN t.rows

RECURSIVE SumOver(_, _)
SumOver(f, S) ==
    IF S = {} THEN 0
    ELSE LET x == CHOOSE y \in S : TRUE IN f[x] + SumOver(f, S \ {x})

\* the values of a numeric column by row
Values(t, c) == [i \in RowIds(t) |-> IF IsNum(Cell(t, i, c)) THEN Val(Cell(t, i, c)) ELSE 0]

\* the rows of t holding v in column c
RowsWith(t, c, v) == {i \in RowIds(t) : Cell(t, i, c) = v}

\* the column names of the uploaded deliveries file, trimmed and lower-cased
UploadedNames ==
    {StrLower(StrStrip(delivery_file.columns[j])) : j \in DOMAIN delivery_file.columns}

\* C1: a deliveries file whose trimmed, lower-cased header lacks batsman or
\* batsman_runs stops the run with an error naming exactly the required
\* columns that are absent and listing the columns present, and no section is
\* rendered; a file with both columns is never stopped.
ValidationGate ==
    run.status # "warning" =>
        LET lacking == {c \in {"batsman", "batsman_runs"} : c \notin UploadedNames}
        IN  IF lacking # {}
            THEN /\ run.status = "stopped"
                 /\ Range(run.missing) = lacking
                 /\ Len(run.missing) = Cardinality(lacking)
                 /\ Range(run.available) = UploadedNames
                 /\ run.out = None
                 /\ run.error = "none"
            ELSE /\ run.status # "stopped"
                 /\ run.missing = <<>>

ValidationGateWitness ==
    /\ run.status = "stopped"
    /\ run.missing = <<"batsman">>
    /\ "batsman_runs" \in Range(run.available)

\* the columns a section reads that an upload may lack without being stopped
OptionalColumns ==
    {"player_dismissed", "bowler", "total_runs", "match_id", "batting_team", "over",
     "id", "season", "team1", "team2", "winner", "toss_decision", "result",
     "win_by_runs", "win_by_wickets"}

\* C2: no section ends in an exception because an optional column is absent
\* from the uploaded tables.
GracefulDegradation ==
    run.status = "exception" =>
        ~(/\ run.key \in OptionalColumns
          /\ ~HasColumn(df, run.key)
          /\ ~HasColumn(deliveries, run.key))

\* C3: after cleaning, every section leaves the matches table and the
\* deliveries table as cleaning left them, and the downloads are those tables.
TablesUnchangedByViews ==
    Passed =>
        /\ df = CleanMatches(match_file)
        /\ deliveries = CleanDeliveries(delivery_file)
        /\ Shown("Downloadable Reports") =>
              /\ run.out.matches_csv = to_csv(CleanMatches(match_file))
              /\ run.out.deliveries_csv = to_csv(CleanDeliveries(delivery_file))

TablesUnchangedWitness ==
    /\ Shown("Team Analysis")
    /\ ~HasColumn(df, "loser")
    /\ run.out.h2h_counts # {}
    /\ \E i \in RowIds(match_file) : \E j \in DOMAIN match_file.rows[i] : IsNaN(match_file.rows[i][j])

Batsmen == {Cell(deliveries, i, "batsman") : i \in RowIds(deliveries)} \ {NaN}

\* runs off the bat of batsman b over the whole table
TotalOf(b) == SumOver(Values(deliveries, "batsman_runs"), RowsWith(deliveries, "batsman", b))

\* the row on which batsman b first appears
FirstAppearance(b) ==
    CHOOSE i \in RowsWith(deliveries, "batsman", b) :
        \A j \in RowsWith(deliveries, "batsman", b) : i <= j

\* at most 10 entries, each a batsman with their total, in descending order,
\* and nobody left out has more than somebody listed
TopTenDescending(top) ==
    /\ Len(top) <= 10
    /\ \A k \in DOMAIN top : top[k][1] \in Batsmen /\ top[k][2] = TotalOf(top[k][1])
    /\ \A k, l \in DOMAIN top : k < l => top[k][1] # top[l][1] /\ top[k][2] >= top[l][2]
    /\ \A b \in Batsmen \ {top[k][1] : k \in DOMAIN top} :
          \A k \in DOMAIN top : TotalOf(b) <= top[k][2]

\* C5 as stated: the top-scorer list has at most 10 entries in descending
\* order of total, batsmen with equal totals are in order of first appearance
\* in the deliveries table, and nobody outside the list has a greater total.
TopScorersFirstAppearance ==
    Shown("Dashboard Overview") =>
        /\ TopTenDescending(run.out.top_runs)
        /\ \A k, l \in DOMAIN run.out.top_runs :
              (k < l /\ run.out.top_runs[k][2] = run.out.top_runs[l][2])
                  => FirstAppearance(run.out.top_runs[k][1]) < FirstAppearance(run.out.top_runs[l][1])

\* C5 amended: the top-scorer list has at most 10 entries, each batsman once
\* with their total, in descending order of total, and nobody outside the
\* list has a greater total than somebody in it.
TopScorersDescending ==
    Shown("Dashboard Overview") => TopTenDescending(run.out.top_runs)

TopScorersWitness ==
    /\ Shown("Dashboard Overview")
    /\ Len(run.out.top_runs) = 10
    /\ Cardinality(Batsmen) > 10
    /\ run.out.top_runs[1][2] > run.out.top_runs[2][2]

\* the per-batsman totals the dashboard aggregates
PerBatsman == GroupBySum(deliveries, "batsman", "batsman_runs")

\* C6 as stated: the per-batsman totals add up to the sum of the runs-off-bat
\* column over the whole cleaned table, rows without a batsman included.
RunConservation ==
    (Passed /\ section = "Dashboard Overview") =>
        SumSeq([g \in DOMAIN PerBatsman |-> PerBatsman[g][2]])
            = SumOver(Values(deliveries, "batsman_runs"), RowIds(deliveries))

\* C6 amended: the per-batsman totals add up to the sum of the runs-off-bat
\* column over the rows of the cleaned table that name a batsman.
RunConservationNamed ==
    (Passed /\ section = "Dashboard Overview") =>
        SumSeq([g \in DOMAIN PerBatsman |-> PerBatsman[g][2]])
            = SumOver(Values(deliveries, "batsman_runs"),
                      {i \in RowIds(deliveries) : ~IsNaN(Cell(deliveries, i, "batsman"))})

RunConservationWitness ==
    /\ Shown("Dashboard Overview")
    /\ Len(PerBatsman) = 1
    /\ PerBatsman[1][2] = 4
    /\ \E i \in RowIds(deliveries) :
          IsNaN(Cell(deliveries, i, "batsman")) /\ Cell(deliveries, i, "batsman_runs") = Num(1)

Abs(n) == IF n < 0 THEN 0 - n ELSE n

\* hundredths h is the quotient q rounded to two decimals
RoundsTo(q, h) == 2 * Abs(100 * q[1] - h * q[2]) <= q[2]

BowlerEconomy ==
    Shown("Bowler Analysis") =>
        LET p      == selected[1]
            bowled == IF p = None THEN {} ELSE RowsWith(deliveries, "bowler", p)
            b      == Cardinality(bowled)
            r      == SumOver(Values(deliveries, "total_runs"), bowled)
            o      == run.out
        IN  /\ o.overs[2] > 0 /\ o.economy[2] > 0
            /\ 6 * o.overs[1] = (6 * (b \div 6) + (b % 6)) * o.overs[2]
            /\ (b = 0) => o.economy[1] = 0 /\ o.economy_2f = 0
            /\ (b > 0) => o.economy[1] * b = 6 * r * o.economy[2]
            /\ (b = 7 /\ r = 10) => o.economy_2f = 857

BowlerEconomyWitness ==
    /\ Shown("Bowler Analysis")
    /\ run.out.balls = 7
    /\ run.out.runs = 10
    /\ run.out.economy_2f = 857

\* the uploaded deliveries, one row per distinct line, nothing filled in
UploadedDeliveries == drop_duplicates(NormalizeColumns(delivery_file))

\* the rows among S whose dismissed-player field is not empty in the upload
Dismissals(S) == Cardinality({i \in S : ~IsNaN(Cell(UploadedDeliveries, i, "player_dismissed"))})

\* C9: the wickets of the selected bowler are the deliveries they bowled whose
\* dismissed-player field is not empty in the uploaded data (0 when the field
\* is empty on every row), and best bowling is the largest such count within
\* one match.
BowlerWickets ==
    (Shown("Bowler Analysis") /\ selected[1] # None) =>
        LET bowled   == RowsWith(UploadedDeliveries, "bowler", selected[1])
            match(i) == Cell(UploadedDeliveries, i, "match_id")
        IN  /\ run.out.wickets = Dismissals(bowled)
            /\ \A i \in bowled : Val(run.out.best) >= Dismissals({j \in bowled : match(j) = match(i)})
            /\ \E i \in bowled : Val(run.out.best) = Dismissals({j \in bowled : match(j) = match(i)})

\* C10: in the team summary total wins never exceed matches played, so the
\* win percentage lies between 0 and 100.
WinsWithinPlayed ==
    Shown("Team Analysis") =>
        /\ run.out.stats.total_wins <= run.out.stats.total_matches
        /\ run.out.stats.win_pct[1] >= 0
        /\ run.out.stats.win_pct[1] <= 100 * run.out.stats.win_pct[2]

====
